---- MODULE Spec2Model ----
(***************************************************************************)
(* tower-balance, load/pending_requests.rs: the load of an endpoint is the *)
(* number of references to a shared Arc<()> that are not the decorator's   *)
(* own.  Every Arc operation (new, clone, drop, strong_count) is one       *)
(* atomic step; steps of different threads interleave freely.              *)
(***************************************************************************)
EXTENDS Integers, Sequences, FiniteSets, Bags, TLC

\* ---- bounds of the model
\* decorators constructed directly with PendingRequests::new
MaxNew == 1
\* calls dispatched, over all decorators
MaxDispatch == 3
\* polls of the discovery stream (each can insert one decorator)
MaxPolls == 2

Svcs == 1..(MaxNew + MaxPolls)
Cells == 1..(MaxNew + MaxPolls)

Instruments == {"NoInstrument", "IntoHandle"}
Keys == {"k1", "k2"}
\* inner services: the one a caller wraps itself, and the discovered ones
NewEndpoints == {"e0"}
Endpoints == {"e1", "e2"}
\* requests; the decorator never reads one
Reqs == {"a"}
\* the requests of a caller that tells its responses apart
ReadyReqs == {"a", "b"}

\* the outcomes one poll of a readiness check or of a future can have
PollOutcomes == {"NotReady", "Ok", "Err"}

\* what one poll of the underlying discovery stream can return
DiscoverOutcomes ==
    {<<"NotReady">>, <<"Err", "de">>}
        \cup {<<"Insert", k, e>> : k \in Keys, e \in Endpoints}
        \cup {<<"Remove", k>> : k \in Keys}

VARIABLES
    strong,      \* Arc::strong_count of every RefCount cell (0: not allocated or freed)
    cells,       \* number of cells allocated so far
    svc,         \* the PendingRequests values ever constructed
    fut,         \* the bag of dispatches: each InstrumentFuture ever returned by
                 \* call, with what became of it and of its Handle
    discInstr,   \* the M of WithPendingRequests<D, M>
    yielded,     \* the changes the underlying discover yielded, in order
    emitted,     \* the changes WithPendingRequests::poll returned, in order
    polls,       \* polls of WithPendingRequests
    underPolls,  \* polls of the underlying discover
    forwarded,   \* forwarded[d]: the requests the inner service of decorator d
                 \* was called with, in order
    ret          \* what the last operation returned, when it was load, poll_ready
                 \* or the poll of the discovery stream

vars == <<strong, cells, svc, fut, discInstr, yielded, emitted, polls,
          underPolls, forwarded, ret>>

NoSvc == [state |-> "none", cell |-> 0, instr |-> "NoInstrument", inner |-> "none",
          frame |-> "idle"]
Dropped == [state |-> "dropped", cell |-> 0, instr |-> "NoInstrument",
            inner |-> "none", frame |-> "idle"]
NoRet == [op |-> "none", id |-> 0, val |-> 0]

nSvc == Cardinality({d \in Svcs : svc[d].state # "none"})
nFut == BagCardinality(fut)
Futs == BagToSet(fut)

\* the bag with one copy of future f replaced by g
Become(f, g) == (fut (-) SetToBag({f})) (+) SetToBag({g})

\* ---- RefCount(Arc<()>)

\* a cell that starts with no strong reference
RefCount_default_zero(s, c) == [s EXCEPT ![c] = 0]

\* RefCount::default(): Arc::new(()), one strong reference
RefCount_default(s, c) == [s EXCEPT ![c] = 1]

\* a clone counted twice
RefCount_clone_twice(s, c) == [s EXCEPT ![c] = @ + 2]

\* RefCount::clone (derived): Arc::clone, an atomic increment
RefCount_clone(s, c) == [s EXCEPT ![c] = @ + 1]

\* a drop whose decrement is lost
RefCount_drop_lost(s, c) == s

\* drop of a RefCount (of the Handle or of the decorator holding it)
RefCount_drop(s, c) == [s EXCEPT ![c] = @ - 1]

\* RefCount::ref_count
ref_count(c) == strong[c]

\* usize subtraction; -1 stands for the overflow (a panic in a debug build,
\* usize::MAX in a release build), which is no valid Count
Underflow == -1
usize_sub(a, b) == IF a >= b THEN a - b ELSE Underflow

\* ---- PendingRequests

\* a decorator built on one cell shared by all
PendingRequests_new_shared(e) ==
    [state |-> "live", cell |-> 1, instr |-> "NoInstrument", inner |-> e,
     frame |-> "idle"]

\* PendingRequests::new
PendingRequests_new(e) ==
    [state |-> "live", cell |-> cells + 1, instr |-> "NoInstrument", inner |-> e,
     frame |-> "idle"]

\* a reconfiguration that gives the decorator a cell of its own
with_instrument_fresh(p, m) == [p EXCEPT !.instr = m, !.cell = cells + 1]

\* PendingRequests::with_instrument
with_instrument(p, m) == [p EXCEPT !.instr = m]

\* a Handle that holds no reference
handle_noclone(d) == strong

\* a Handle of the first cell made, whichever decorator it is taken from
handle_first(d) == RefCount_clone(strong, 1)

\* PendingRequests::handle: the cell after Handle(self.ref_count.clone())
handle(d) == RefCount_clone(strong, svc[d].cell)

\* a load that counts the decorator's own reference
load_nosub(d) == ref_count(svc[d].cell)

\* PendingRequests::load
load(d) == usize_sub(ref_count(svc[d].cell), 1)

\* a decorator on which a method taking &self or &mut self can be called now
Callable(d) == svc[d].state = "live" /\ svc[d].frame = "idle"

DiscVars == <<discInstr, yielded, emitted, polls, underPolls>>

New(e) ==
    /\ nSvc < MaxNew
    /\ LET p == PendingRequests_new(e) IN
         /\ svc' = [svc EXCEPT ![nSvc + 1] = p]
         /\ strong' = RefCount_default(strong, p.cell)
         /\ cells' = cells + 1
    /\ ret' = NoRet
    /\ UNCHANGED <<fut, DiscVars, forwarded>>

WithInstrument(d, m) ==
    /\ Callable(d)
    /\ svc[d].instr = "NoInstrument"
    /\ svc' = [svc EXCEPT ![d] = with_instrument(svc[d], m)]
    /\ ret' = NoRet
    /\ UNCHANGED <<strong, cells, fut, DiscVars, forwarded>>

\* a load that takes a handle of the cell it reads
Load_counts(d) ==
    /\ Callable(d)
    /\ ret' = [op |-> "load", id |-> d, val |-> load(d)]
    /\ strong' = handle(d)
    /\ UNCHANGED <<cells, svc, fut, DiscVars, forwarded>>

\* Load::load
Load(d) ==
    /\ Callable(d)
    /\ ret' = [op |-> "load", id |-> d, val |-> load(d)]
    /\ UNCHANGED <<strong, cells, svc, fut, DiscVars, forwarded>>

\* a readiness check that always answers ready
poll_ready_always(d, o) == "Ok"

\* Service::poll_ready: the inner service's answer
poll_ready(d, o) == o

PollReady(d, o) ==
    /\ Callable(d)
    /\ ret' = [op |-> "poll_ready", id |-> d, val |-> poll_ready(d, o)]
    /\ UNCHANGED <<strong, cells, svc, fut, DiscVars, forwarded>>

\* a call that takes its handle only when its completion is first polled
CallHandle_lazy(d, req) ==
    /\ Callable(d)
    /\ nFut < MaxDispatch
    /\ svc' = [svc EXCEPT ![d].frame = req]
    /\ ret' = NoRet
    /\ UNCHANGED <<strong, cells, fut, DiscVars, forwarded>>

\* Service::call, first argument: self.handle()
CallHandle(d, req) ==
    /\ Callable(d)
    /\ nFut < MaxDispatch
    /\ strong' = handle(d)
    /\ svc' = [svc EXCEPT ![d].frame = req]
    /\ ret' = NoRet
    /\ UNCHANGED <<cells, fut, DiscVars, forwarded>>

\* InstrumentFuture::new(handle, future).  state: pending, done (resolved Ok),
\* failed (resolved Err) or dropped (before it resolved); handle: the future's
\* Option<Handle> is Some; hook: calls of M::instrument; held: the caller holds
\* the Handle the hook returned; out: what the last poll of the future returned
\* (the inner response to request r is written r)
InstrumentFuture_new(d) ==
    [state |-> "pending", svc |-> d, cell |-> svc[d].cell, handle |-> TRUE,
     instr |-> svc[d].instr, req |-> svc[d].frame, hook |-> 0, held |-> FALSE,
     out |-> <<"NotReady">>]

\* a call that calls the inner service twice
CallInner_twice(d) ==
    /\ svc[d].state = "live"
    /\ svc[d].frame # "idle"
    /\ fut' = fut (+) SetToBag({InstrumentFuture_new(d)})
    /\ forwarded' = [forwarded EXCEPT ![d] = Append(Append(@, svc[d].frame), svc[d].frame)]
    /\ svc' = [svc EXCEPT ![d].frame = "idle"]
    /\ ret' = NoRet
    /\ UNCHANGED <<strong, cells, DiscVars>>

\* Service::call, second argument and return: self.service.call(req), wrapped
CallInner(d) ==
    /\ svc[d].state = "live"
    /\ svc[d].frame # "idle"
    /\ fut' = fut (+) SetToBag({InstrumentFuture_new(d)})
    /\ forwarded' = [forwarded EXCEPT ![d] = Append(@, svc[d].frame)]
    /\ svc' = [svc EXCEPT ![d].frame = "idle"]
    /\ ret' = NoRet
    /\ UNCHANGED <<strong, cells, DiscVars>>

\* drop of the decorator: its inner service and its RefCount
DropService(d) ==
    /\ Callable(d)
    /\ svc' = [svc EXCEPT ![d] = Dropped]
    /\ strong' = RefCount_drop(strong, svc[d].cell)
    /\ ret' = NoRet
    /\ UNCHANGED <<cells, fut, DiscVars, forwarded>>

\* ---- Instrument, InstrumentFuture, Handle

\* NoInstrument::instrument(handle, rsp): drops the handle, returns rsp.
\* TRUE when the Handle is part of the output.
NoInstrument_instrument == FALSE

\* a pass-through hook that drops the handle
IntoHandle_drops == FALSE

\* IntoHandle::instrument(i, ()): returns the handle
IntoHandle_instrument == TRUE

\* M::instrument for the M of a future
instrument(m) ==
    IF m = "IntoHandle" THEN IntoHandle_instrument ELSE NoInstrument_instrument

\* a hook that runs twice
HookCalls_twice(o) == IF o = "Ok" THEN 2 ELSE 0

\* the calls of M::instrument one resolution makes.  The hook takes
\* M: Instrument<Handle, S::Response> and the future's error is S::Error: an
\* inner error has no response to give the hook and is returned as it is.
HookCalls(o) == IF o = "Ok" THEN 1 ELSE 0

\* a future that keeps its Handle counted when the inner future fails
Released_on_success(f, o) == o = "Ok" /\ ~instrument(f.instr)

\* whether the resolution of f with outcome o ends the life of its Handle:
\* on Ok the hook decides, on Err the Handle is released
Released(f, o) == o = "Err" \/ ~instrument(f.instr)

\* InstrumentFuture::poll; o is what the inner future's poll returns
FuturePoll(f, o) ==
    /\ f.state = "pending"
    /\ \/ /\ o = "NotReady"
          /\ UNCHANGED <<strong, fut>>
       \/ /\ o = "Ok"
          /\ strong' = IF Released(f, o) THEN RefCount_drop(strong, f.cell) ELSE strong
          /\ fut' = Become(f, [f EXCEPT
                 !.state = "done", !.handle = FALSE, !.hook = @ + HookCalls(o),
                 !.held = ~Released(f, o),
                 !.out = <<"Ok", IF Released(f, o) THEN f.req ELSE "Handle">>])
       \/ /\ o = "Err"
          /\ strong' = IF Released(f, o) THEN RefCount_drop(strong, f.cell) ELSE strong
          /\ fut' = Become(f, [f EXCEPT
                 !.state = "failed", !.handle = FALSE, !.hook = @ + HookCalls(o),
                 !.out = <<"Err", f.req>>])
    /\ ret' = NoRet
    /\ UNCHANGED <<cells, svc, DiscVars, forwarded>>

\* drop of an InstrumentFuture that has not resolved: its Handle goes with it
DropFuture(f) ==
    /\ f.state = "pending"
    /\ strong' = RefCount_drop(strong, f.cell)
    /\ fut' = Become(f, [f EXCEPT !.state = "dropped", !.handle = FALSE])
    /\ ret' = NoRet
    /\ UNCHANGED <<cells, svc, DiscVars, forwarded>>

\* drop of a Handle the caller got from a resolved future
DropHandle(f) ==
    /\ f.held
    /\ strong' = RefCount_drop(strong, f.cell)
    /\ fut' = Become(f, [f EXCEPT !.held = FALSE])
    /\ ret' = NoRet
    /\ UNCHANGED <<cells, svc, DiscVars, forwarded>>

\* ---- WithPendingRequests

\* WithPendingRequests::instrument
WithPendingRequests_instrument(m) ==
    /\ discInstr = "NoInstrument"
    /\ discInstr' = m
    /\ ret' = NoRet
    /\ UNCHANGED <<strong, cells, svc, fut, yielded, emitted, polls, underPolls,
                   forwarded>>

\* the match of WithPendingRequests::poll: the change returned for the change o
\* of the underlying discover; an Insert carries the decorator built for it
poll_change(o) ==
    IF o[1] = "Insert" THEN <<"Insert", o[2], nSvc + 1>> ELSE <<"Remove", o[2]>>

\* a poll that merges a change into an equal one before it
poll_emitted_merge(o) ==
    IF o[1] \in {"NotReady", "Err"} THEN emitted
    ELSE IF Len(emitted) > 0 /\ emitted[Len(emitted)][2] = o[2] THEN emitted
    ELSE Append(emitted, poll_change(o))

\* the changes returned so far, after a poll whose underlying poll returned o:
\* try_ready! returns early on NotReady and on Err
poll_emitted(o) ==
    IF o[1] \in {"NotReady", "Err"} THEN emitted ELSE Append(emitted, poll_change(o))

\* a poll that returns an error of its own for the error of the stream
poll_return_wrap(o) ==
    IF o[1] = "Err" THEN <<"Err", "wrapped">>
    ELSE IF o[1] = "NotReady" THEN o ELSE <<"Ready", poll_change(o)>>

\* what WithPendingRequests::poll returns
poll_return(o) ==
    IF o[1] \in {"NotReady", "Err"} THEN o ELSE <<"Ready", poll_change(o)>>

\* a poll that inserts the decorator as PendingRequests::new built it
Poll_plain(o) ==
    /\ polls < MaxPolls
    /\ polls' = polls + 1
    /\ underPolls' = underPolls + 1
    /\ yielded' = IF o[1] \in {"Insert", "Remove"} THEN Append(yielded, o) ELSE yielded
    /\ emitted' = poll_emitted(o)
    /\ ret' = [op |-> "discover", id |-> 0, val |-> poll_return(o)]
    /\ \/ /\ o[1] = "Insert"
          /\ LET p == PendingRequests_new(o[3]) IN
               /\ svc' = [svc EXCEPT ![nSvc + 1] = p]
               /\ strong' = RefCount_default(strong, p.cell)
               /\ cells' = cells + 1
       \/ /\ o[1] # "Insert"
          /\ UNCHANGED <<strong, cells, svc>>
    /\ UNCHANGED <<fut, discInstr, forwarded>>

\* Discover::poll of WithPendingRequests; o is what self.discover.poll() returns
Poll(o) ==
    /\ polls < MaxPolls
    /\ polls' = polls + 1
    /\ underPolls' = underPolls + 1
    /\ yielded' = IF o[1] \in {"Insert", "Remove"} THEN Append(yielded, o) ELSE yielded
    /\ emitted' = poll_emitted(o)
    /\ ret' = [op |-> "discover", id |-> 0, val |-> poll_return(o)]
    /\ \/ /\ o[1] = "Insert"
          /\ LET p == with_instrument(PendingRequests_new(o[3]), discInstr) IN
               /\ svc' = [svc EXCEPT ![nSvc + 1] = p]
               /\ strong' = RefCount_default(strong, p.cell)
               /\ cells' = cells + 1
       \/ /\ o[1] # "Insert"
          /\ UNCHANGED <<strong, cells, svc>>
    /\ UNCHANGED <<fut, discInstr, forwarded>>

Init ==
    /\ strong = [c \in Cells |-> 0]
    /\ cells = 0
    /\ svc = [d \in Svcs |-> NoSvc]
    /\ fut = EmptyBag
    /\ discInstr = "NoInstrument"
    /\ yielded = <<>>
    /\ emitted = <<>>
    /\ polls = 0
    /\ underPolls = 0
    /\ forwarded = [d \in Svcs |-> <<>>]
    /\ ret = NoRet

\* a decorator built by its caller, its dispatches and their completions
Next ==
    \/ \E e \in NewEndpoints : New(e)
    \/ \E d \in Svcs, m \in Instruments : WithInstrument(d, m)
    \/ \E d \in Svcs : Load(d)
    \/ \E d \in Svcs, req \in Reqs : CallHandle(d, req)
    \/ \E d \in Svcs : CallInner(d)
    \/ \E f \in Futs, o \in PollOutcomes : FuturePoll(f, o)
    \/ \E f \in Futs : DropFuture(f)
    \/ \E f \in Futs : DropHandle(f)
    \/ \E d \in Svcs : DropService(d)

Spec == Init /\ [][Next]_vars

\* the discovery stream and the decorators it builds
NextDiscover ==
    \/ \E m \in Instruments : WithPendingRequests_instrument(m)
    \/ \E o \in DiscoverOutcomes : Poll(o)
    \/ \E d \in Svcs : Load(d)
    \/ \E d \in Svcs : DropService(d)

SpecDiscover == Init /\ [][NextDiscover]_vars

\* the changes of a stream that inserts, removes and inserts again
BalanceOutcomes == {<<"Insert", "k1", "e1">>, <<"Remove", "k1">>}

\* the discovery stream and the dispatches on the decorators it builds
NextBalance ==
    \/ \E m \in Instruments : WithPendingRequests_instrument(m)
    \/ \E o \in BalanceOutcomes : Poll(o)
    \/ \E d \in Svcs, req \in Reqs : CallHandle(d, req)
    \/ \E d \in Svcs : CallInner(d)
    \/ \E f \in Futs, o \in PollOutcomes : FuturePoll(f, o)
    \/ \E f \in Futs : DropFuture(f)
    \/ \E f \in Futs : DropHandle(f)

SpecBalance == Init /\ [][NextBalance]_vars

\* the readiness checks, the dispatches and the responses of a decorator
NextReady ==
    \/ \E e \in NewEndpoints : New(e)
    \/ \E d \in Svcs, o \in PollOutcomes : PollReady(d, o)
    \/ \E d \in Svcs, req \in ReadyReqs : CallHandle(d, req)
    \/ \E d \in Svcs : CallInner(d)
    \/ \E f \in Futs, o \in PollOutcomes : FuturePoll(f, o)

SpecReady == Init /\ [][NextReady]_vars

\* every completion in flight is resolved or dropped in the end, and a call
\* that has taken its Handle returns
Settle == \E f \in Futs : FuturePoll(f, "Ok") \/ FuturePoll(f, "Err") \/ DropFuture(f)
Return == \E d \in Svcs : CallInner(d)

FairSpec == Spec /\ WF_vars(Settle) /\ WF_vars(Return)

\* ---- what the properties count

\* the number of dispatches that satisfy P
Count(P(_)) == BagCardinality([f \in {x \in Futs : P(x)} |-> fut[f]])

\* the Handles on cell c that are alive: in a call that has not returned, in
\* a future that has not resolved, or with a caller
Handles(c) ==
    Cardinality({d \in Svcs : svc[d].state = "live" /\ svc[d].frame # "idle"
                                /\ svc[d].cell = c})
        + Count(LAMBDA f : f.cell = c /\ f.handle)
        + Count(LAMBDA f : f.cell = c /\ f.held)

\* the dispatches of decorator d: all, resolved, dropped before resolving
Dispatched(d) == Count(LAMBDA f : f.svc = d)
Completed(d) == Count(LAMBDA f : f.svc = d /\ f.state \in {"done", "failed"})
Cancelled(d) == Count(LAMBDA f : f.svc = d /\ f.state = "dropped")
Pending(d) == Count(LAMBDA f : f.svc = d /\ f.state = "pending")

\* every dispatch of d was made with the no-op instrumentation
AllNoInstrument(d) == \A f \in Futs : f.svc = d => f.instr = "NoInstrument"
AllIntoHandle(d) == \A f \in Futs : f.svc = d => f.instr = "IntoHandle"

Live(d) == svc[d].state = "live"

\* ---- C1
\* C1 as stated: on any decorator, load() read after N dispatches and M
\* completions, none of them dropped, is N - M.
C1_LoadIsDispatchedMinusCompleted ==
    \A d \in Svcs :
        Callable(d) /\ Cancelled(d) = 0 => load(d) = Dispatched(d) - Completed(d)

\* C1 amended: on a decorator whose dispatches all use the no-op instrumentation
\* NoInstrument, load() read after N dispatches, M completions and K completions
\* dropped before resolving is N - M - K (N - M when none was dropped), both as
\* the value load() returned and as the value a read would return now.
C1_NoInstrumentLoadIsDispatchedMinusCompleted ==
    /\ \A d \in Svcs :
           Callable(d) /\ AllNoInstrument(d)
               => load(d) = Dispatched(d) - Completed(d) - Cancelled(d)
    /\ ret.op = "load" /\ AllNoInstrument(ret.id)
           => ret.val = Dispatched(ret.id) - Completed(ret.id) - Cancelled(ret.id)

C1_Witness ==
    /\ ret.op = "load"
    /\ AllNoInstrument(ret.id)
    /\ Dispatched(ret.id) = 3
    /\ Completed(ret.id) = 1
    /\ Cancelled(ret.id) = 0
    /\ ret.val = 2

\* ---- C2
\* C2: in every reachable state, load() of a live decorator is the number of
\* Handles of its cell that are alive, whatever the interleaving of the Arc
\* increments and decrements made by calls, resolutions, drops and releases.
C2_LoadIsLiveHandles ==
    \A d \in Svcs : Live(d) => load(d) = Handles(svc[d].cell)

C2_Witness ==
    \E d \in Svcs :
        /\ Live(d)
        /\ svc[d].frame # "idle"
        /\ \E f \in Futs : f.cell = svc[d].cell /\ f.held
        /\ \E f \in Futs : f.cell = svc[d].cell /\ f.state = "dropped"
        /\ load(d) = 2

\* ---- C3
\* C3: dropping a completion that has not resolved decreases load() of its
\* (live) decorator by exactly one, as the resolution of a completion made
\* with NoInstrument does, and the dropped completion holds no Handle after.
C3_DropDecrementsLikeCompletion ==
    [][\A f \in Futs :
          Live(f.svc) =>
              /\ DropFuture(f) =>
                     /\ load(f.svc)' = load(f.svc) - 1
                     /\ \A g \in BagToSet(fut') : g.state = "dropped" => ~g.handle
              /\ f.instr = "NoInstrument" /\ FuturePoll(f, "Ok") =>
                     load(f.svc)' = load(f.svc) - 1]_vars

C3_Witness ==
    \E f \in Futs :
        /\ f.state = "dropped"
        /\ Live(f.svc)
        /\ Pending(f.svc) = 1
        /\ load(f.svc) = 1

\* ---- C4
\* C4: with NoInstrument, the resolution of a completion releases its Handle and
\* decreases load() of its (live) decorator by exactly one, when the inner
\* completion fails exactly as when it succeeds.
C4_ReleaseOnAnyOutcome ==
    [][\A f \in Futs : \A o \in {"Ok", "Err"} :
          Live(f.svc) /\ f.instr = "NoInstrument" /\ FuturePoll(f, o) =>
              /\ load(f.svc)' = load(f.svc) - 1
              /\ \A g \in BagToSet(fut') :
                     g.state \in {"done", "failed"} => ~g.handle]_vars

C4_Witness ==
    \E f \in Futs :
        /\ f.state = "failed"
        /\ f.instr = "NoInstrument"
        /\ Live(f.svc)
        /\ \E g \in Futs : g.svc = f.svc /\ g.state = "done"
        /\ Dispatched(f.svc) = 2
        /\ load(f.svc) = 0

C6_LoadReturnsToZero ==
    \A d \in Svcs :
        Callable(d) /\ AllNoInstrument(d) /\ Pending(d) = 0 => load(d) = 0

\* C6, the eventual part, under FairSpec: a decorator with completions in flight,
\* all of them NoInstrument, comes to load() 0, unless it is dropped or
\* dispatches with another instrumentation first.
C6_EventuallyZero ==
    \A d \in Svcs :
        (Callable(d) /\ AllNoInstrument(d) /\ Pending(d) > 0)
            ~> (~Live(d) \/ ~AllNoInstrument(d) \/ (Callable(d) /\ load(d) = 0))

C6_Witness ==
    \E d \in Svcs :
        /\ Callable(d)
        /\ AllNoInstrument(d)
        /\ Dispatched(d) = 3
        /\ Completed(d) = 2
        /\ Cancelled(d) = 1
        /\ load(d) = 0

C8_LoadNeverUnderflows ==
    \A d \in Svcs :
        Callable(d) =>
            /\ ref_count(svc[d].cell) >= 1
            /\ load(d) # Underflow
            /\ load(d) >= 0
            /\ load(d) = ref_count(svc[d].cell) - 1

C8_Witness ==
    \E d \in Svcs :
        /\ Callable(d)
        /\ ref_count(svc[d].cell) = 1
        /\ Dispatched(d) = 3
        /\ load(d) = 0

\* ---- C9
\* C9: when a poll returns Insert, the underlying stream yielded Insert with the
\* same key, and the endpoint returned is a decorator built in that poll around
\* the endpoint yielded, with a cell of its own and load() 0; when a poll
\* returns Remove, the underlying stream yielded Remove with the same key and
\* the poll built nothing.
C9_InsertWrapsRemoveForwards ==
    ret.op = "discover" /\ ret.val[1] = "Ready" =>
        LET ch == ret.val[2]
            y == yielded[Len(yielded)]
        IN  /\ Len(yielded) > 0
            /\ ch[1] = y[1]
            /\ ch[2] = y[2]
            /\ ch[1] = "Insert" =>
                   /\ Len(ch) = 3
                   /\ Callable(ch[3])
                   /\ svc[ch[3]].inner = y[3]
                   /\ load(ch[3]) = 0
                   /\ \A d \in Svcs \ {ch[3]} : svc[d].cell # svc[ch[3]].cell
                   /\ nSvc = Cardinality({i \in 1..Len(yielded) : yielded[i][1] = "Insert"})
            /\ ch[1] = "Remove" =>
                   /\ Len(ch) = 2
                   /\ nSvc = Cardinality({i \in 1..Len(yielded) : yielded[i][1] = "Insert"})

C9_Witness ==
    /\ ret.op = "discover"
    /\ ret.val = <<"Ready", <<"Insert", "k1", 2>>>>
    /\ yielded = <<<<"Insert", "k1", "e1">>, <<"Insert", "k1", "e2">>>>
    /\ svc[1].inner = "e1"
    /\ svc[2].inner = "e2"
    /\ load(2) = 0

\* ---- C10
\* C10: every poll of WithPendingRequests is one poll of the underlying stream,
\* and the changes returned are, one for one and in the same order, the changes
\* the underlying stream yielded, kind and key kept; a poll that finds the
\* underlying stream not ready returns no change.
C10_UnbufferedInOrder ==
    /\ polls = underPolls
    /\ Len(emitted) = Len(yielded)
    /\ \A i \in 1..Len(emitted) :
           /\ emitted[i][1] = yielded[i][1]
           /\ emitted[i][2] = yielded[i][2]
    /\ ret.op = "discover" /\ ret.val[1] = "Ready" =>
           Len(emitted) > 0 /\ ret.val[2] = emitted[Len(emitted)]
    /\ Len(emitted) <= polls

C10_Witness ==
    /\ polls = 2
    /\ Len(emitted) = 1
    /\ emitted[1][1] = "Remove"
    /\ ret.op = "discover"
    /\ ret.val = <<"NotReady">>

\* ---- C11
\* C11: a poll whose underlying poll fails returns that error as it is, returns
\* no change and builds no decorator; and every error a poll returns is the
\* error its underlying poll returned.
C11_DiscoverErrorUnchanged ==
    [][\A o \in DiscoverOutcomes :
          Poll(o) =>
              /\ o[1] = "Err" =>
                     /\ ret'.op = "discover"
                     /\ ret'.val = o
                     /\ emitted' = emitted
                     /\ UNCHANGED <<svc, strong, cells, fut, forwarded>>
              /\ ret'.val[1] = "Err" => o[1] = "Err" /\ ret'.val = o]_vars

C11_Witness ==
    /\ ret.op = "discover"
    /\ ret.val = <<"Err", "de">>
    /\ polls = 2
    /\ Len(emitted) = 1
    /\ emitted[1][1] = "Insert"
    /\ nSvc = 1

\* ---- C12
\* the number of times request r is in the sequence q
Occurrences(q, r) == Cardinality({i \in 1..Len(q) : q[i] = r})

\* C12: with NoInstrument, the inner service of a decorator has been called
\* exactly once, with the request of the call, for each completion the
\* decorator returned; a completion returns what its inner completion returns
\* (not ready, the response to its request, or the error, as it is); and the
\* readiness check returns what the inner readiness check returns.
C12_Transparent ==
    /\ [](\A d \in Svcs :
             /\ Len(forwarded[d]) = Dispatched(d)
             /\ \A r \in ReadyReqs :
                    Occurrences(forwarded[d], r)
                        = Count(LAMBDA f : f.svc = d /\ f.req = r))
    /\ [](\A f \in Futs :
             f.instr = "NoInstrument" =>
                 /\ f.state = "pending" => f.out = <<"NotReady">>
                 /\ f.state = "done" => f.out = <<"Ok", f.req>>
                 /\ f.state = "failed" => f.out = <<"Err", f.req>>)
    /\ [][/\ \A f \in Futs : \A o \in {"Ok", "Err"} :
                f.instr = "NoInstrument" /\ FuturePoll(f, o) =>
                    \E g \in BagToSet(fut') : g.out = <<o, f.req>> /\ g.svc = f.svc
          /\ \A d \in Svcs : \A o \in PollOutcomes :
                PollReady(d, o) => ret'.val = o]_vars

C12_Witness ==
    /\ forwarded[1] = <<"a", "b", "a">>
    /\ \E f \in Futs : f.req = "b" /\ f.out = <<"Err", "b">>
    /\ \E f \in Futs : f.req = "a" /\ f.out = <<"Ok", "a">>
    /\ \E f \in Futs : f.req = "a" /\ f.out = <<"NotReady">>
    /\ ret = [op |-> "poll_ready", id |-> 1, val |-> "NotReady"]

\* ---- C13
\* C13: load changes nothing of the decorator, of its cell or of its
\* completions; it returns the load of the state it is called in, so a load
\* that directly follows a load of the same decorator returns the same value.
C13_LoadIsPureRead ==
    [][\A d \in Svcs :
          Load(d) =>
              /\ UNCHANGED <<strong, cells, svc, fut, DiscVars, forwarded>>
              /\ load(d)' = load(d)
              /\ ret'.val = load(d)
              /\ (ret.op = "load" /\ ret.id = d) => ret'.val = ret.val]_vars

C13_Witness ==
    /\ ret = [op |-> "load", id |-> 1, val |-> 2]
    /\ Pending(1) = 2
    /\ strong[svc[1].cell] = 3

\* ---- C14
\* C14: poll_ready returns the readiness answer of the inner service (ready,
\* not ready or its error) and leaves the load and the cell of the decorator
\* as they are.
C14_PollReadyPassesThrough ==
    [][\A d \in Svcs : \A o \in PollOutcomes :
          PollReady(d, o) =>
              /\ ret'.op = "poll_ready"
              /\ ret'.val = o
              /\ load(d)' = load(d)
              /\ UNCHANGED <<strong, cells, svc, fut, forwarded>>]_vars

C14_Witness ==
    /\ ret = [op |-> "poll_ready", id |-> 1, val |-> "Err"]
    /\ load(1) = 2
    /\ \E f \in Futs : f.state = "pending"

\* ---- C15
\* C15: call raises the load of its decorator by exactly one before it calls
\* the inner service, whatever the inner service is ready for; the call of the
\* inner service leaves the load as it is and returns a completion that holds
\* the handle and has not been polled.
C15_CallCountsAtReturn ==
    [][\A d \in Svcs :
          /\ \A req \in Reqs :
                CallHandle(d, req) =>
                    /\ load(d)' = load(d) + 1
                    /\ fut' = fut
          /\ CallInner(d) =>
                /\ load(d)' = load(d)
                /\ load(d) = Pending(d) + Count(LAMBDA f : f.svc = d /\ f.held) + 1
                /\ \E f \in BagToSet(fut') :
                      /\ f.svc = d /\ f.state = "pending" /\ f.handle
                      /\ f.hook = 0 /\ f.out = <<"NotReady">>
                      /\ BagCardinality(fut') = nFut + 1]_vars

C15_Witness ==
    /\ Dispatched(1) = 3
    /\ Pending(1) = 3
    /\ load(1) = 3
    /\ svc[1].frame = "idle"
    /\ \A f \in Futs : f.out = <<"NotReady">> /\ f.hook = 0

\* ---- C18
\* C18: with_instrument leaves the decorator on the cell it had, so its load
\* is the same before and after; a completion returned before the
\* reconfiguration is on the cell of the reconfigured decorator, is counted in
\* its load, and lowers that load by one when it resolves or is dropped.
C18_WithInstrumentKeepsCell ==
    /\ [][\A d \in Svcs : \A m \in Instruments :
             WithInstrument(d, m) =>
                 /\ svc'[d].cell = svc[d].cell
                 /\ svc'[d].instr = m
                 /\ load(d)' = load(d)
                 /\ UNCHANGED <<strong, fut>>]_vars
    /\ [](\A f \in Futs : Live(f.svc) => f.cell = svc[f.svc].cell)
    /\ [][\A f \in Futs :
             (/\ Live(f.svc)
              /\ f.instr = "NoInstrument"
              /\ svc[f.svc].instr # "NoInstrument"
              /\ FuturePoll(f, "Ok") \/ FuturePoll(f, "Err") \/ DropFuture(f))
                 => load(f.svc)' = load(f.svc) - 1]_vars

C18_Witness ==
    /\ svc[1].instr = "IntoHandle"
    /\ load(1) = 1
    /\ \E f \in Futs : f.instr = "NoInstrument" /\ f.state = "done"
    /\ \E f \in Futs : f.instr = "NoInstrument" /\ f.state = "pending"
    /\ nFut = 2

\* ---- C16
\* the decorators of the Inserts returned so far, in the order of their return
Inserted == [i \in {j \in 1..Len(emitted) : emitted[j][1] = "Insert"} |-> emitted[i][3]]

\* C16: an Insert returned by a discovery decorator of variant M carries a
\* decorator of variant M; the variant of a discovery decorator built by
\* instrument never changes, a decorator keeps the variant it was returned
\* with and gives it to its completions, so the Inserts returned since
\* instrument have one variant; and with the pass-through variant the load of
\* a returned decorator stays above zero after its completions resolved, as
\* long as the handles they returned are held.
C16_InsertsCarryTheVariant ==
    /\ [][\A o \in BalanceOutcomes :
             (Poll(o) /\ o[1] = "Insert") =>
                 \E n \in Svcs :
                     /\ n = nSvc + 1
                     /\ ret'.val = <<"Ready", <<"Insert", o[2], n>>>>
                     /\ svc'[n].state = "live"
                     /\ svc'[n].instr = discInstr
                     /\ discInstr' = discInstr]_vars
    /\ [][discInstr # "NoInstrument" => discInstr' = discInstr]_vars
    /\ [][\A d \in Svcs : (Live(d) /\ Live(d)') => svc'[d].instr = svc[d].instr]_vars
    /\ [](\A i, j \in DOMAIN Inserted :
             (/\ i < j
              /\ Live(Inserted[i]) /\ Live(Inserted[j])
              /\ svc[Inserted[i]].instr # "NoInstrument")
                 => svc[Inserted[j]].instr = svc[Inserted[i]].instr)
    /\ [](\A f \in Futs :
             Live(f.svc) =>
                 /\ f.instr = svc[f.svc].instr
                 /\ (f.instr = "IntoHandle" /\ f.state = "done" /\ f.held)
                        => load(f.svc) >= 1)
    /\ [](\A d \in Svcs :
             (Callable(d) /\ svc[d].instr = "IntoHandle" /\ Cancelled(d) = 0)
                 => load(d) = Dispatched(d) - Count(LAMBDA f : f.svc = d /\ f.state = "failed")
                               - Count(LAMBDA f : f.svc = d /\ f.state = "done" /\ ~f.held))

C16_Witness ==
    /\ discInstr = "IntoHandle"
    /\ DOMAIN Inserted = {1, 2}
    /\ svc[1].instr = "IntoHandle" /\ svc[2].instr = "IntoHandle"
    /\ Dispatched(2) = 2
    /\ \A f \in Futs : f.svc = 2 /\ f.state = "done" /\ f.held
    /\ Callable(2)
    /\ load(2) = 2

\* ---- C17
\* a step of an operation on decorator d or on one of its completions
OpOn(d) ==
    \/ \E req \in Reqs : CallHandle(d, req)
    \/ CallInner(d)
    \/ \E f \in Futs : f.svc = d /\ \E o \in PollOutcomes : FuturePoll(f, o)
    \/ \E f \in Futs : f.svc = d /\ DropFuture(f)
    \/ \E f \in Futs : f.svc = d /\ DropHandle(f)

\* C17: two decorators never have the same cell, and no completion has the
\* cell of a decorator other than its own; a call, a resolution, a drop of a
\* completion or a release of a handle of one decorator leaves the load of
\* every other decorator as it is; and the decorator of an Insert
\* starts at load 0 and leaves the other loads as they are, also when its key
\* was inserted or removed before and handles of the earlier decorator exist.
C17_CellsAreNotShared ==
    /\ [](\A d, e \in Svcs :
             (d # e /\ Live(d) /\ Live(e)) => svc[d].cell # svc[e].cell)
    /\ [](\A f \in Futs :
             /\ \A g \in Futs : f.svc # g.svc => f.cell # g.cell
             /\ \A d \in Svcs : (Live(d) /\ f.svc # d) => f.cell # svc[d].cell)
    /\ [][\A d, e \in Svcs :
             (d # e /\ Live(e) /\ OpOn(d)) => (Live(e)' /\ load(e)' = load(e))]_vars
    /\ [][\A o \in BalanceOutcomes :
             (Poll(o) /\ o[1] = "Insert") =>
                 /\ \E n \in Svcs : n = nSvc + 1 /\ Live(n)' /\ load(n)' = 0
                 /\ \A e \in Svcs : Live(e) => load(e)' = load(e)]_vars

C17_Witness ==
    /\ yielded = <<<<"Insert", "k1", "e1">>, <<"Insert", "k1", "e1">>>>
    /\ ret.op = "discover"
    /\ ret.val = <<"Ready", <<"Insert", "k1", 2>>>>
    /\ Count(LAMBDA f : f.svc = 1 /\ f.handle) = 2
    /\ load(1) = 2
    /\ load(2) = 0
====
